---- MODULE Spec2Model ----
(***************************************************************************)
(* A model of parray.h: a growable, offset-addressed array of opaque       *)
(* references (struct parray: offset, length, capacity, data) and its      *)
(* public operations.                                                      *)
(*                                                                         *)
(* Physical slots are numbered from 0 as in the source, so `data` is a     *)
(* function on 0..n-1 where n is the number of slots of the block that     *)
(* parr->data points to (the empty function when there is no block).       *)
(***************************************************************************)
EXTENDS Integers, Sequences, FiniteSets, TLC

\* ------------------------------------------------------------------ bounds
\* The general specification never lets the live region end beyond this
\* physical slot (a guard on push and insert).
MaxSlot == 3
\* Number of successful pushes in the queue specification.
MaxQueuePush == 18
\* Number of successful pushes in the fill-then-drain specification.
MaxFill == 10
\* Largest capacity of the containers the layout specification starts from.
MaxLayoutCap == 4

\* ------------------------------------------------------- program constants
\* The capacity malloc'ed by the first push.
InitCap == 8
\* sizeof(parr->data[0]), the size of a void* (an LP64 build).
SizeofPtr == 8
\* NULL, as a returned reference.
NULL == 0
\* (size_t)-1, the failure return of the index-returning functions.
FAIL == 0 - 1
\* The value of a slot that holds no reference a caller stored: malloc'ed or
\* realloc'ed but never written, freed, or torn by a partial copy.
Indet == 0 - 2
\* What `ret` holds after a void function.
Void == 0 - 3

\* The element references the callers of the general specification hand in:
\* two distinct non-NULL references. An element's key is its number.
Elem == {1, 2}
\* The indices they pass: every valid index and one beyond the largest length.
Inds == 0..MaxSlot
\* The targets they pass to parrayCapacity: below, at and above every length.
Targets == 0..(MaxSlot + 1)
\* The keys they search for: those of the elements and one no element has.
Keys == Elem \cup {3}
\* The references held by the containers of the layout specification and
\* handed in by its callers: three distinct references, two of them to
\* objects with the same key.
LayoutElem == {1, 2, 3}

VARIABLES
    offset,     \* parr->offset
    length,     \* parr->length
    capacity,   \* parr->capacity
    data,       \* the block parr->data points to: slot -> value
    freed,      \* parr->data points to a block that realloc(p, 0) released
    call,       \* the last call: [op, a (its index, capacity or key argument), g (growth branch taken),
                \* again (it repeats the successful capacity call right before it)]
    ret,        \* what the last call returned
    fifo,       \* abstract FIFO sequence driven by the successful push/dequeue calls;
                \* layout specification: the contents the last insert or sort found
    net,        \* successful adds minus successful removes since the last clear
    pushed,     \* number of successful pushes (queue and drain specifications)
    taken,      \* number of successful dequeues or pops (drain specification);
                \* layout specification: the reference handed to the last insert
    phase,      \* drain specification: "fill", "dequeue" or "pop"
    branches    \* queue specification: growth branches taken so far

cont == <<offset, length, capacity, data, freed>>
ghost == <<fifo, net, pushed, taken, phase, branches>>
vars == <<offset, length, capacity, data, freed, call, ret, fifo, net, pushed, taken, phase, branches>>

\* ----------------------------------------------------------------- memory
NoBlock == [p \in {} |-> Indet]

\* malloc(sizeof(void*) * n): n slots of indeterminate content.
Malloc(n) == [p \in 0..(n - 1) |-> Indet]

\* A block whose content is lost.
Lost(d) == [p \in DOMAIN d |-> Indet]

\* The content of the block realloc(p, sizeof(void*) * n) returns on success.
Resized(d, n) == [p \in 0..(n - 1) |-> IF p \in DOMAIN d THEN d[p] ELSE Indet]

\* (mutant) a copy that stops one slot short.
MoveSlotsShort(d, dst, src, n) ==
    [p \in DOMAIN d |-> IF dst <= p /\ p < dst + n - 1 THEN d[src + (p - dst)] ELSE d[p]]

\* memcpy/memmove of n whole slots from slot src to slot dst.
MoveSlots(d, dst, src, n) ==
    [p \in DOMAIN d |-> IF dst <= p /\ p < dst + n THEN d[src + (p - dst)] ELSE d[p]]

\* The results of overwriting the low `rem` bytes of a slot holding `old`
\* with those of a slot holding `new`: which reference the mixed bytes spell
\* depends on the addresses, so it is the old one, the new one, or neither.
Torn(old, new) == IF old = new THEN {old} ELSE {old, new, Indet}

\* memmove(&d[dst], &d[src], nbytes): whole slots are moved, and the slot
\* after them is overwritten in part when nbytes is no multiple of SizeofPtr.
MoveBytes(d, dst, src, nbytes) ==
    LET whole == nbytes \div SizeofPtr
        rem   == nbytes % SizeofPtr
        moved == MoveSlots(d, dst, src, whole)
    IN  IF rem = 0 THEN {moved}
        ELSE {[moved EXCEPT ![dst + whole] = t] : t \in Torn(d[dst + whole], d[src + whole])}

\* What a block holds after the program has written content d into it, and
\* what reading a slot that holds v yields. An access through a dangling
\* pointer is undefined: nothing is known of what such a write leaves or
\* such a read returns, which is what Indet stands for.
Stored(d) == IF freed THEN Lost(d) ELSE d
Loaded(v) == IF freed THEN Indet ELSE v

\* The outcomes of realloc(parr->data, sizeof(void*) * n) on block d:
\* ok (non-NULL result), the block parr->data designates afterwards if the
\* caller stores the result on success, and whether the old pointer dangles.
\* realloc(p, 0) either releases p and returns NULL, or returns a block of no
\* slots; realloc of a dangling pointer is undefined.
ReallocOutcomes(d, n) ==
    IF freed
    THEN {[ok |-> TRUE, d |-> Malloc(n), fr |-> FALSE],
          [ok |-> FALSE, d |-> d, fr |-> TRUE]}
    ELSE IF n = 0
    THEN {[ok |-> FALSE, d |-> Lost(d), fr |-> TRUE],
          [ok |-> TRUE, d |-> NoBlock, fr |-> FALSE]}
    ELSE {[ok |-> TRUE, d |-> Resized(d, n), fr |-> FALSE],
          [ok |-> FALSE, d |-> d, fr |-> FALSE]}

\* The live region as a sequence: logical index i is element i+1.
LiveOf(d, off, len) == [i \in 1..len |-> d[off + i - 1]]
Contents == LiveOf(data, offset, length)

Called(o, a, g, r) ==
    /\ call' = [op |-> o, a |-> a, g |-> g,
                again |-> o = "capacity" /\ call.op = "capacity" /\ call.a = a /\ ret # FAIL]
    /\ ret' = r

\* ------------------------------------------------------- general functions
Init ==
    /\ offset = 0
    /\ length = 0
    /\ capacity = 0
    /\ data = NoBlock
    /\ freed = FALSE
    /\ call = [op |-> "new", a |-> 0, g |-> "none", again |-> FALSE]
    /\ ret = NULL
    /\ fifo = <<>>
    /\ net = 0
    /\ pushed = 0
    /\ taken = 0
    /\ phase = "fill"
    /\ branches = {}

parrayLength ==
    /\ Called("length", 0, "none", length)
    /\ UNCHANGED cont

parraySet(ind, ele) ==
    IF ind >= length
    THEN /\ Called("set", ind, "none", FAIL)
         /\ UNCHANGED cont
    ELSE /\ data' = Stored([data EXCEPT ![offset + ind] = ele])
         /\ Called("set", ind, "none", ind)
         /\ UNCHANGED <<offset, length, capacity, freed>>

parrayIndexOf(ele) ==
    LET hits == {i \in 0..(length - 1) : data[offset + i] = ele}
    IN  /\ Called("indexOf", ele, "none",
                  IF hits = {} THEN FAIL ELSE CHOOSE i \in hits : \A j \in hits : i <= j)
        /\ UNCHANGED cont

\* What parrayGet(parr, ind) returns.
Get(ind) == IF ind >= length THEN NULL ELSE Loaded(data[offset + ind])

parrayGet(ind) ==
    /\ Called("get", ind, "none", Get(ind))
    /\ UNCHANGED cont

parrayGetFirst ==
    /\ IF length = 0
       THEN Called("getFirst", 0, "none", NULL)
       ELSE Called("getFirst", 0, "none", Loaded(data[offset]))
    /\ UNCHANGED cont

parrayGetLast ==
    /\ IF length = 0
       THEN Called("getLast", 0, "none", NULL)
       ELSE Called("getLast", 0, "none", Loaded(data[offset + length - 1]))
    /\ UNCHANGED cont

\* (mutant) a clear that resets the offset only.
parrayClearOffsetOnly ==
    /\ offset' = 0
    /\ Called("clear", 0, "none", Void)
    /\ UNCHANGED <<length, capacity, data, freed>>

\* (mutant) a clear that releases the allocation.
parrayClearReleases ==
    /\ offset' = 0
    /\ length' = 0
    /\ capacity' = 0
    /\ data' = NoBlock
    /\ Called("clear", 0, "none", Void)
    /\ UNCHANGED freed

parrayClear ==
    /\ offset' = 0
    /\ length' = 0
    /\ Called("clear", 0, "none", Void)
    /\ UNCHANGED <<capacity, data, freed>>

\* ---------------------------------------------------- stack-like functions
\* (mutant) a growth step that doubles parr->capacity before it knows whether
\* realloc succeeded.
GrowEager(off, len, cap, d) ==
    IF off + len = cap
    THEN IF off >= len
         THEN {[ok |-> TRUE, off |-> 0, cap |-> cap, d |-> Stored(MoveSlots(d, 0, off, len)),
                fr |-> freed, g |-> "compact"]}
         ELSE {[ok |-> r.ok, off |-> off, cap |-> cap * 2,
                d |-> r.d, fr |-> r.fr, g |-> "double"] : r \in ReallocOutcomes(d, cap * 2)}
    ELSE {[ok |-> TRUE, off |-> off, cap |-> cap, d |-> d, fr |-> freed, g |-> "none"]}

\* (mutant) a growth step that compacts whenever the offset is not 0.
GrowCompactAny(off, len, cap, d) ==
    IF off + len = cap
    THEN IF off > 0
         THEN {[ok |-> TRUE, off |-> 0, cap |-> cap, d |-> Stored(MoveSlots(d, 0, off, len)),
                fr |-> freed, g |-> "compact"]}
         ELSE {[ok |-> r.ok, off |-> off, cap |-> IF r.ok THEN cap * 2 ELSE cap,
                d |-> r.d, fr |-> r.fr, g |-> "double"] : r \in ReallocOutcomes(d, cap * 2)}
    ELSE {[ok |-> TRUE, off |-> off, cap |-> cap, d |-> d, fr |-> freed, g |-> "none"]}

\* The growth step shared by parrayPush and parrayInsert, from a layout
\* (off, len, cap, d): the layouts it can leave, with ok = FALSE when realloc
\* failed and the function returns -1.
Grow(off, len, cap, d) ==
    IF off + len = cap
    THEN IF off >= len
         THEN {[ok |-> TRUE, off |-> 0, cap |-> cap, d |-> Stored(MoveSlots(d, 0, off, len)),
                fr |-> freed, g |-> "compact"]}
         ELSE {[ok |-> r.ok, off |-> off, cap |-> IF r.ok THEN cap * 2 ELSE cap,
                d |-> r.d, fr |-> r.fr, g |-> "double"] : r \in ReallocOutcomes(d, cap * 2)}
    ELSE {[ok |-> TRUE, off |-> off, cap |-> cap, d |-> d, fr |-> freed, g |-> "none"]}

parrayPush(ele) ==
    \/ /\ capacity = 0
       \* malloc failed: parr->data is NULL now
       /\ data' = NoBlock
       /\ Called("push", 0, "init", FAIL)
       /\ UNCHANGED <<offset, length, capacity, freed>>
    \/ \E x \in Grow(offset, length, IF capacity = 0 THEN InitCap ELSE capacity,
                     IF capacity = 0 THEN Malloc(InitCap) ELSE data) :
         IF ~x.ok
         THEN /\ Called("push", 0, x.g, FAIL)
              /\ data' = x.d
              /\ freed' = x.fr
              /\ offset' = x.off
              /\ capacity' = x.cap
              /\ UNCHANGED length
         ELSE /\ data' = (IF x.fr THEN Lost(x.d) ELSE [x.d EXCEPT ![x.off + length] = ele])
              /\ offset' = x.off
              /\ capacity' = x.cap
              /\ freed' = x.fr
              /\ length' = length + 1
              /\ Called("push", 0, IF capacity = 0 THEN "init" ELSE x.g, length)

\* (mutant) a pop that returns the first element instead of the last.
parrayPopFirst ==
    IF length = 0
    THEN /\ Called("pop", 0, "none", NULL)
         /\ UNCHANGED cont
    ELSE /\ length' = length - 1
         /\ Called("pop", 0, "none", Loaded(data[offset]))
         /\ UNCHANGED <<offset, capacity, data, freed>>

parrayPop ==
    IF length = 0
    THEN /\ Called("pop", 0, "none", NULL)
         /\ UNCHANGED cont
    ELSE /\ length' = length - 1
         /\ Called("pop", 0, "none", Loaded(data[offset + length - 1]))
         /\ UNCHANGED <<offset, capacity, data, freed>>

\* ---------------------------------------------------- queue-like functions
\* (mutant) a dequeue that forgets to advance the offset.
parrayDequeueStuck ==
    IF length = 0
    THEN /\ Called("dequeue", 0, "none", NULL)
         /\ UNCHANGED cont
    ELSE /\ length' = length - 1
         /\ Called("dequeue", 0, "none", Loaded(data[offset]))
         /\ UNCHANGED <<offset, capacity, data, freed>>

parrayDequeue ==
    IF length = 0
    THEN /\ Called("dequeue", 0, "none", NULL)
         /\ UNCHANGED cont
    ELSE /\ length' = length - 1
         /\ offset' = offset + 1
         /\ Called("dequeue", 0, "none", Loaded(data[offset]))
         /\ UNCHANGED <<capacity, data, freed>>

\* ---------------------------------------------------- sort/search functions
\* The key an element reference points to. The comparators the callers pass
\* order elements by it. References 1 and 2 point to objects with keys 1 and
\* 2, reference 3 to a second object with key 1.
Key(e) == IF e = 3 THEN 1 ELSE e

Sign(n) == IF n > 0 THEN 1 ELSE IF n < 0 THEN 0 - 1 ELSE 0

\* comp for the sort functions: three-way comparison of two elements.
CompElems(x, y) == Sign(Key(x) - Key(y))

\* comp for the search functions: three-way comparison of a key and an element.
CompKey(key, y) == Sign(key - Key(y))

\* The live region is sorted smallest to greatest according to CompElems.
SortedLive(d, off, len) ==
    \A i, j \in 0..(len - 1) : i < j => CompElems(d[off + i], d[off + j]) <= 0

\* bsearch(key, &d[off], len, ...): the logical indices it may point to, or
\* {FAIL} when it returns NULL. On a sorted region it finds an element that
\* compares equal if there is one; on any other region its result is
\* unspecified.
Bsearch(key, d, off, len) ==
    LET hits == {i \in 0..(len - 1) : CompKey(key, d[off + i]) = 0}
    IN  IF SortedLive(d, off, len)
        THEN IF hits = {} THEN {FAIL} ELSE hits
        ELSE (0..(len - 1)) \cup {FAIL}

\* What parrayFindIndex may return for a key on the container as it is.
FindIndex(key) ==
    {IF res = FAIL THEN FAIL ELSE res \div SizeofPtr : res \in Bsearch(key, data, offset, length)}

parrayFindIndex(key) ==
    /\ \E r \in FindIndex(key) : Called("findIndex", key, "none", r)
    /\ UNCHANGED cont

parrayFindElement(key) ==
    /\ \E res \in Bsearch(key, data, offset, length) :
          IF res = FAIL
          THEN Called("findElement", key, "none", NULL)
          ELSE Called("findElement", key, "none", Loaded(data[offset + res]))
    /\ UNCHANGED cont

Swapped(d, p, q) == [d EXCEPT ![p] = d[q], ![q] = d[p]]

\* (mutant) an inner loop that also swaps elements that compare equal.
RECURSIVE SinkEqual(_, _, _)
SinkEqual(d, i, off) ==
    IF i > off /\ CompElems(d[i - 1], d[i]) >= 0
    THEN SinkEqual(Swapped(d, i - 1, i), i - 1, off)
    ELSE d

\* The inner loop of parraySortInsert: the element at slot i sinks while its
\* left neighbour is greater.
RECURSIVE Sink(_, _, _)
Sink(d, i, off) ==
    IF i > off /\ CompElems(d[i - 1], d[i]) > 0
    THEN Sink(Swapped(d, i - 1, i), i - 1, off)
    ELSE d

\* The outer loop of parraySortInsert, from j on.
RECURSIVE InsertionSorted(_, _, _, _)
InsertionSorted(d, j, off, len) ==
    IF j < len
    THEN InsertionSorted(Sink(d, off + j, off), j + 1, off, len)
    ELSE d

parraySortInsert ==
    /\ data' = Stored(InsertionSorted(data, 1, offset, length))
    /\ Called("sortInsert", 0, "none", Void)
    /\ UNCHANGED <<offset, length, capacity, freed>>

\* qsort(&d[off], len, ...): any arrangement of the live elements that is
\* sorted according to CompElems.
Qsorted(d, off, len) ==
    LET perms == {f \in [0..(len - 1) -> 0..(len - 1)] :
                    \A i, j \in 0..(len - 1) : i # j => f[i] # f[j]}
        placed(f) == [p \in DOMAIN d |->
                        IF off <= p /\ p < off + len THEN d[off + f[p - off]] ELSE d[p]]
    IN  {placed(f) : f \in {g \in perms : SortedLive(placed(g), off, len)}}

parraySortStandard ==
    /\ \E s \in Qsorted(data, offset, length) : data' = Stored(s)
    /\ Called("sortStandard", 0, "none", Void)
    /\ UNCHANGED <<offset, length, capacity, freed>>

\* ------------------------------------------------- insert/remove functions
\* (mutant) an insert that takes index == length as an append.
parrayInsertAppend(ind, ele) ==
    IF ind > length
    THEN /\ Called("insert", ind, "none", FAIL)
         /\ UNCHANGED cont
    ELSE \E x \in Grow(offset, length, capacity, data) :
         IF ~x.ok
         THEN /\ Called("insert", ind, x.g, FAIL)
              /\ data' = x.d
              /\ freed' = x.fr
              /\ offset' = x.off
              /\ capacity' = x.cap
              /\ UNCHANGED length
         ELSE LET shifted == MoveSlots(x.d, x.off + ind + 1, x.off + ind, length - ind)
                  written == [shifted EXCEPT ![x.off + ind] = ele]
              IN  /\ data' = (IF x.fr THEN Lost(written) ELSE written)
                  /\ offset' = x.off
                  /\ capacity' = x.cap
                  /\ freed' = x.fr
                  /\ length' = length + 1
                  /\ Called("insert", ind, x.g, ind)

\* (mutant) an insert that writes the element without moving the tail.
parrayInsertOverwrites(ind, ele) ==
    IF ind >= length
    THEN /\ Called("insert", ind, "none", FAIL)
         /\ UNCHANGED cont
    ELSE \E x \in Grow(offset, length, capacity, data) :
         IF ~x.ok
         THEN /\ Called("insert", ind, x.g, FAIL)
              /\ data' = x.d
              /\ freed' = x.fr
              /\ offset' = x.off
              /\ capacity' = x.cap
              /\ UNCHANGED length
         ELSE LET written == [x.d EXCEPT ![x.off + ind] = ele]
              IN  /\ data' = (IF x.fr THEN Lost(written) ELSE written)
                  /\ offset' = x.off
                  /\ capacity' = x.cap
                  /\ freed' = x.fr
                  /\ length' = length + 1
                  /\ Called("insert", ind, x.g, ind)

parrayInsert(ind, ele) ==
    IF ind >= length
    THEN /\ Called("insert", ind, "none", FAIL)
         /\ UNCHANGED cont
    ELSE \E x \in Grow(offset, length, capacity, data) :
         IF ~x.ok
         THEN /\ Called("insert", ind, x.g, FAIL)
              /\ data' = x.d
              /\ freed' = x.fr
              /\ offset' = x.off
              /\ capacity' = x.cap
              /\ UNCHANGED length
         ELSE LET shifted == MoveSlots(x.d, x.off + ind + 1, x.off + ind, length - ind)
                  written == [shifted EXCEPT ![x.off + ind] = ele]
              IN  /\ data' = (IF x.fr THEN Lost(written) ELSE written)
                  /\ offset' = x.off
                  /\ capacity' = x.cap
                  /\ freed' = x.fr
                  /\ length' = length + 1
                  /\ Called("insert", ind, x.g, ind)

\* (mutant) a remove that closes the gap from the wrong side.
parrayRemoveShiftsHead(ind) ==
    IF ind >= length
    THEN /\ Called("remove", ind, "none", NULL)
         /\ UNCHANGED cont
    ELSE /\ length' = length - 1
         /\ data' = Stored(MoveSlots(data, offset + 1, offset, ind))
         /\ Called("remove", ind, "none", Loaded(data[offset + ind]))
         /\ UNCHANGED <<offset, capacity, freed>>

parrayRemove(ind) ==
    IF ind >= length
    THEN /\ Called("remove", ind, "none", NULL)
         /\ UNCHANGED cont
    ELSE /\ length' = length - 1
         /\ data' = Stored(MoveSlots(data, offset + ind, offset + ind + 1, length - 1 - ind))
         /\ Called("remove", ind, "none", Loaded(data[offset + ind]))
         /\ UNCHANGED <<offset, capacity, freed>>

\* (mutant) a ditch that leaves the slot as it is.
parrayDitchKeepsSlot(ind) ==
    IF ind >= length
    THEN /\ Called("ditch", ind, "none", NULL)
         /\ UNCHANGED cont
    ELSE /\ length' = length - 1
         /\ Called("ditch", ind, "none", Loaded(data[offset + ind]))
         /\ UNCHANGED <<offset, capacity, data, freed>>

parrayDitch(ind) ==
    IF ind >= length
    THEN /\ Called("ditch", ind, "none", NULL)
         /\ UNCHANGED cont
    ELSE /\ length' = length - 1
         /\ data' = Stored([data EXCEPT ![offset + ind] = data[offset + length - 1]])
         /\ Called("ditch", ind, "none", Loaded(data[offset + ind]))
         /\ UNCHANGED <<offset, capacity, freed>>

\* ------------------------------------------------ memory-related functions
\* (mutant) a capacity that takes the target as it comes.
Unclamped(target) == target

\* The capacity parrayCapacity goes for: never below the length.
Clamped(target) == IF target < length THEN length ELSE target

\* (mutant) a capacity that calls realloc whatever the capacity is.
AlwaysRealloc(cap) == TRUE

\* parrayCapacity calls realloc only when the capacity has to change.
NeedsRealloc(cap) == cap # capacity

parrayCapacity(target) ==
    LET cap == Clamped(target)
        \* the blocks the memmove of parr->length bytes can leave
        moved == IF offset # 0
                 THEN {Stored(m) : m \in MoveBytes(data, 0, offset, length)}
                 ELSE {data}
        g == IF offset # 0 THEN "compact" ELSE "none"
        gr == IF offset # 0 THEN "compact+realloc" ELSE "realloc"
    IN  \E m \in moved :
          /\ offset' = 0
          /\ UNCHANGED length
          /\ IF NeedsRealloc(cap)
             THEN \E r \in ReallocOutcomes(m, cap) :
                    /\ data' = r.d
                    /\ freed' = r.fr
                    /\ capacity' = IF r.ok THEN cap ELSE capacity
                    /\ Called("capacity", target, gr, IF r.ok THEN cap ELSE FAIL)
             ELSE /\ data' = m
                  /\ UNCHANGED <<capacity, freed>>
                  /\ Called("capacity", target, g, capacity)

\* ---------------------------------------------------- general specification
\* Any sequence of calls on a new container. The counter `net` is kept as
\* the callers would keep it: a push or insert that does not return -1 adds
\* one, a pop or dequeue of a non-empty count and a remove or ditch at an
\* index below the count take one, clear resets it.
Push ==
    \E e \in Elem :
        /\ parrayPush(e)
        /\ offset' + length' <= MaxSlot
        /\ net' = IF ret' # FAIL THEN net + 1 ELSE net
        /\ UNCHANGED <<fifo, pushed, taken, phase, branches>>

Pop ==
    /\ parrayPop
    /\ net' = IF net > 0 THEN net - 1 ELSE net
    /\ UNCHANGED <<fifo, pushed, taken, phase, branches>>

Dequeue ==
    /\ parrayDequeue
    /\ net' = IF net > 0 THEN net - 1 ELSE net
    /\ UNCHANGED <<fifo, pushed, taken, phase, branches>>

Insert ==
    \E i \in Inds, e \in Elem :
        /\ parrayInsert(i, e)
        /\ offset' + length' <= MaxSlot
        /\ net' = IF ret' # FAIL THEN net + 1 ELSE net
        /\ UNCHANGED <<fifo, pushed, taken, phase, branches>>

Remove ==
    \E i \in Inds :
        /\ parrayRemove(i)
        /\ net' = IF i < net THEN net - 1 ELSE net
        /\ UNCHANGED <<fifo, pushed, taken, phase, branches>>

Ditch ==
    \E i \in Inds :
        /\ parrayDitch(i)
        /\ net' = IF i < net THEN net - 1 ELSE net
        /\ UNCHANGED <<fifo, pushed, taken, phase, branches>>

Set ==
    \E i \in Inds, e \in Elem :
        /\ parraySet(i, e)
        /\ UNCHANGED ghost

Clear ==
    /\ parrayClear
    /\ net' = 0
    /\ UNCHANGED <<fifo, pushed, taken, phase, branches>>

Capacity ==
    \E t \in Targets :
        /\ parrayCapacity(t)
        /\ UNCHANGED ghost

SortInsert ==
    /\ parraySortInsert
    /\ UNCHANGED ghost

SortStandard ==
    /\ parraySortStandard
    /\ UNCHANGED ghost

Read ==
    /\ \/ parrayLength
       \/ \E i \in Inds : parrayGet(i)
       \/ parrayGetFirst
       \/ parrayGetLast
       \/ \E e \in Elem : parrayIndexOf(e)
       \/ \E k \in Keys : parrayFindIndex(k)
       \/ \E k \in Keys : parrayFindElement(k)
    /\ UNCHANGED ghost

Next ==
    \/ Push
    \/ Pop
    \/ Dequeue
    \/ Insert
    \/ Remove
    \/ Ditch
    \/ Set
    \/ Clear
    \/ Capacity
    \/ SortInsert
    \/ SortStandard
    \/ Read

Spec == Init /\ [][Next]_vars

\* ------------------------------------------------------ queue specification
\* Any interleaving of push and dequeue on a new container, the k-th
\* successful push handing in reference k, next to an abstract FIFO.
QueuePush ==
    /\ pushed < MaxQueuePush
    /\ parrayPush(pushed + 1)
    /\ IF ret' # FAIL
       THEN /\ fifo' = Append(fifo, pushed + 1)
            /\ pushed' = pushed + 1
       ELSE UNCHANGED <<fifo, pushed>>
    /\ branches' = branches \cup ({call'.g} \ {"none"})
    /\ UNCHANGED <<net, taken, phase>>

QueueDequeue ==
    /\ parrayDequeue
    /\ fifo' = IF fifo = <<>> THEN fifo ELSE Tail(fifo)
    /\ UNCHANGED <<net, pushed, taken, phase, branches>>

QueueNext ==
    \/ QueuePush
    \/ QueueDequeue

SpecQueue == Init /\ [][QueueNext]_vars

\* ------------------------------------------------------ drain specification
\* n successful pushes on a new container (the k-th hands in reference k),
\* followed by n dequeue calls or by n pop calls.
DrainPush ==
    /\ phase = "fill"
    /\ pushed < MaxFill
    /\ parrayPush(pushed + 1)
    /\ pushed' = IF ret' # FAIL THEN pushed + 1 ELSE pushed
    /\ UNCHANGED <<fifo, net, taken, phase, branches>>

DrainDequeue ==
    /\ phase \in {"fill", "dequeue"}
    /\ taken < pushed
    /\ parrayDequeue
    /\ phase' = "dequeue"
    /\ taken' = taken + 1
    /\ UNCHANGED <<fifo, net, pushed, branches>>

DrainPop ==
    /\ phase \in {"fill", "pop"}
    /\ taken < pushed
    /\ parrayPop
    /\ phase' = "pop"
    /\ taken' = taken + 1
    /\ UNCHANGED <<fifo, net, pushed, branches>>

DrainNext ==
    \/ DrainPush
    \/ DrainDequeue
    \/ DrainPop

SpecDrain == Init /\ [][DrainNext]_vars

\* ----------------------------------------------------- layout specification
\* One call of insert, remove, ditch or sortInsert on a container in any
\* layout that pushes, dequeues and pops on a container of capacity c leave:
\* the first w slots written, the live region anywhere inside them. An
\* insert may be followed by a remove at the same index.
LayoutInit ==
    /\ \E c \in 1..MaxLayoutCap, w \in 0..MaxLayoutCap :
          /\ w <= c
          /\ capacity = c
          /\ data \in {d \in [0..(c - 1) -> LayoutElem \cup {Indet}] :
                          \A p \in 0..(c - 1) : (d[p] = Indet) <=> (p >= w)}
          /\ offset \in 0..w
          /\ length \in 0..(w - offset)
    /\ freed = FALSE
    /\ call = [op |-> "new", a |-> 0, g |-> "none", again |-> FALSE]
    /\ ret = NULL
    /\ fifo = <<>>
    /\ net = 0
    /\ pushed = 0
    /\ taken = 0
    /\ phase = "fill"
    /\ branches = {}

LayoutInsert ==
    /\ call.op = "new"
    /\ \E i \in 0..MaxLayoutCap, e \in LayoutElem :
          /\ parrayInsert(i, e)
          /\ fifo' = Contents
          /\ taken' = e
    /\ UNCHANGED <<net, pushed, phase, branches>>

LayoutRemove ==
    /\ call.op \in {"new", "insert"}
    /\ \E i \in 0..MaxLayoutCap :
          /\ call.op = "insert" => i = call.a
          /\ parrayRemove(i)
    /\ UNCHANGED ghost

LayoutDitch ==
    /\ call.op = "new"
    /\ \E i \in 0..MaxLayoutCap : parrayDitch(i)
    /\ UNCHANGED ghost

LayoutSortInsert ==
    /\ call.op = "new"
    /\ parraySortInsert
    /\ fifo' = Contents
    /\ UNCHANGED <<net, pushed, taken, phase, branches>>

LayoutNext ==
    \/ LayoutInsert
    \/ LayoutRemove
    \/ LayoutDitch
    \/ LayoutSortInsert

SpecLayout == LayoutInit /\ [][LayoutNext]_vars

\* ------------------------------------------------------------------ claims
\* C1: under any interleaving of push and dequeue calls on a new container,
\* with allocations that may fail, the length and get(0..length-1) equal the
\* abstract FIFO sequence driven by the same calls.
C1_QueueRefinesFifo ==
    /\ length = Len(fifo)
    /\ \A i \in 0..(length - 1) : Get(i) = fifo[i + 1]
    /\ (call.op = "dequeue" /\ ret # NULL) => ret = pushed - Len(fifo)

\* C1 witness: a run that has compacted in place and doubled the initial
\* capacity, and still holds several elements behind a positive offset.
C1_Witness ==
    /\ {"compact", "double"} \subseteq branches
    /\ capacity = 2 * InitCap
    /\ offset > 0
    /\ length >= 2
    /\ call.op = "push" /\ ret # FAIL

\* C2: after n successful pushes on a new container, the k-th of n dequeue
\* calls returns the k-th pushed element, and after the n-th the container is
\* empty.
C2_DequeueFifo ==
    phase = "dequeue" =>
        /\ call.op = "dequeue"
        /\ ret = taken
        /\ length = pushed - taken
        /\ (taken = pushed => length = 0 /\ Get(0) = NULL)

\* C2 witness: more pushes than the initial capacity holds, all dequeued.
C2_Witness ==
    /\ phase = "dequeue"
    /\ pushed > InitCap
    /\ taken = pushed

\* C3: after n successful pushes on a new container, the k-th of n pop calls
\* returns the (n-k+1)-th pushed element, and after the n-th the container is
\* empty.
C3_PopLifo ==
    phase = "pop" =>
        /\ call.op = "pop"
        /\ ret = pushed - taken + 1
        /\ length = pushed - taken
        /\ (taken = pushed => length = 0 /\ Get(0) = NULL)

\* C3 witness: more pushes than the initial capacity holds, all popped.
C3_Witness ==
    /\ phase = "pop"
    /\ pushed > InitCap
    /\ taken = pushed

\* C4: length() equals the successful pushes and inserts minus the successful
\* pops, dequeues, removes and ditches since creation or the last clear();
\* clear() makes it 0; failed calls, set, sort, search and capacity() calls
\* leave it alone (none of them changes the counter it is compared with).
C4_LengthIsNetCount == length = net

\* C4 witness: a ditch has just removed one of several elements.
C4_Witness ==
    /\ call.op = "ditch"
    /\ ret # NULL
    /\ net >= 2

\* C5: in every state reachable by any sequence of calls, failed ones and
\* shrinking capacity() calls included, 0 <= offset and offset + length <=
\* capacity.
C5_LiveRegionInsideCapacity ==
    /\ offset >= 0
    /\ offset + length <= capacity

\* C5 witness: capacity() was asked for less than the length and left the
\* live region filling the whole allocation.
C5_Witness ==
    /\ call.op = "capacity"
    /\ call.a < length
    /\ ret # FAIL
    /\ length >= 2
    /\ offset + length = capacity

\* C6: on a sorted container findIndex with a key that is present returns an
\* index i in [0, length) with cmp(key, get(i)) = 0, and with a key no element
\* compares equal to it returns the failure sentinel.
C6_FindIndexCorrect ==
    (call.op = "findIndex" /\ ~freed /\ SortedLive(data, offset, length)) =>
        IF \E i \in 0..(length - 1) : CompKey(call.a, Get(i)) = 0
        THEN /\ ret \in 0..(length - 1)
             /\ CompKey(call.a, Get(ret)) = 0
        ELSE ret = FAIL

\* C7: a successful capacity(target) leaves the length and every get(i), i in
\* [0, length), as they were, also when it compacts a positive offset.
C7_CapacityKeepsContents ==
    [][(call'.op = "capacity" /\ ret' # FAIL) =>
            /\ length' = length
            /\ Contents' = Contents]_vars

\* C8: when the reallocation inside capacity(target) fails, the call returns
\* the failure indicator and offset, length, capacity and every live element
\* are as before the call.
C8_CapacityFailureKeepsState ==
    [][(call'.op = "capacity" /\ ret' = FAIL) =>
            /\ UNCHANGED <<offset, length, capacity>>
            /\ Contents' = Contents]_vars

\* C9: when the allocation a push or insert needs fails (the initial one of a
\* capacity-0 container or the doubling one), the call returns the failure
\* indicator, offset, length, capacity and every live element are as before
\* the call, and the element is not added.
C9_AllocFailureKeepsState ==
    [][(call'.op \in {"push", "insert"} /\ call'.g \in {"init", "double"} /\ ret' = FAIL) =>
            /\ UNCHANGED <<offset, length, capacity>>
            /\ Contents' = Contents]_vars

\* C9 witness: a push that had to double a full buffer has failed.
C9_Witness ==
    /\ call.op = "push"
    /\ call.g = "double"
    /\ ret = FAIL
    /\ length >= 2

\* The calls of C10: one with an index that is no index of an element, or one
\* that takes or reads an end of an empty container.
InvalidTarget(c) ==
    \/ c.op \in {"get", "set", "remove", "ditch", "insert"} /\ c.a >= length
    \/ c.op \in {"pop", "dequeue", "getFirst", "getLast"} /\ length = 0

\* The failure sentinel of each of them.
Sentinel(o) == IF o \in {"set", "insert"} THEN FAIL ELSE NULL

\* C10: get, set, remove, ditch and insert with index >= length, and pop,
\* dequeue, getFirst and getLast on an empty container, return their failure
\* sentinel and leave offset, length, capacity and the elements unchanged.
C10_InvalidTargetFails ==
    [][InvalidTarget(call') =>
            /\ ret' = Sentinel(call'.op)
            /\ UNCHANGED cont]_vars

\* C10 witness: insert at index == length of a non-empty container has failed.
C10_Witness ==
    /\ call.op = "insert"
    /\ call.a = length
    /\ length >= 1
    /\ ret = FAIL

\* C14: a capacity(target) call that succeeded returned max(target, length),
\* which is the capacity now, never below the length, and the offset is 0.
C14_CapacityInstallsClamped ==
    (call.op = "capacity" /\ ret # FAIL) =>
        /\ ret = (IF call.a < length THEN length ELSE call.a)
        /\ capacity = ret
        /\ capacity >= length
        /\ offset = 0

\* A target below the length was raised to the length, on a container whose
\* live region had to be moved to slot 0.
C14_Witness ==
    /\ call.op = "capacity"
    /\ call.g = "compact+realloc"
    /\ call.a < length
    /\ ret = length
    /\ length >= 2

\* C15: a capacity(n) call right after a successful capacity(n) reallocates
\* nothing, moves nothing, returns the same capacity and leaves the offset,
\* the length, the capacity and every slot as they were.
C15_CapacityIdempotent ==
    [][call'.again =>
          /\ call'.g = "none"
          /\ ret' = ret
          /\ UNCHANGED cont]_vars

\* The second capacity(n) of a pair has returned, on a container that holds
\* elements and has room left.
C15_Witness ==
    /\ call.again
    /\ ret # FAIL
    /\ length >= 1
    /\ capacity > length

\* The functions that neither add an element nor take a capacity argument.
NonGrowing ==
    {"length", "set", "indexOf", "get", "getFirst", "getLast", "pop", "dequeue",
     "findIndex", "findElement", "sortInsert", "sortStandard", "remove", "ditch"}

\* C18: no call other than capacity() lowers the capacity; pop, dequeue,
\* remove, ditch, set, the sorts, the searches and the getters leave it as it
\* is; clear sets offset and length to 0 and leaves the capacity and the
\* block, with everything in it, as they are.
C18_CapacityNeverShrinksImplicitly ==
    [][/\ call'.op # "capacity" => capacity' >= capacity
       /\ call'.op \in NonGrowing => capacity' = capacity
       /\ call'.op = "clear" =>
             /\ offset' = 0
             /\ length' = 0
             /\ UNCHANGED <<capacity, data, freed>>]_vars

\* A container that was filled from its offset on and then cleared: the first
\* slots of the block of eight still hold what was pushed.
C18_Witness ==
    /\ call.op = "clear"
    /\ offset = 0
    /\ length = 0
    /\ capacity = InitCap
    /\ ~freed
    /\ data[0] \in Elem
    /\ data[1] \in Elem

\* The call of this step ran the growth step of parrayPush or parrayInsert.
GrowthStepRan ==
    \/ call'.op = "push" /\ (capacity = 0 => ret' # FAIL)
    \/ call'.op = "insert" /\ call'.a < length

\* C19: in push and in-range insert the layout changes as the growth rule
\* says. A push on capacity 0 whose malloc fails leaves the capacity 0. Else,
\* with cap the capacity (8 for a push on capacity 0): if offset + length #
\* cap the offset stays and the capacity is cap; if offset + length = cap and
\* offset >= length the live region is copied to slot 0, the offset becomes
\* 0, the capacity stays and the call succeeds; if offset + length = cap and
\* offset < length the offset stays and the capacity doubles, or stays when
\* realloc failed and the call returned -1.
C19_GrowthRule ==
    [][/\ (call'.op = "push" /\ capacity = 0 /\ ret' = FAIL) => UNCHANGED <<offset, capacity>>
       /\ GrowthStepRan =>
             LET cap == IF capacity = 0 THEN InitCap ELSE capacity
             IN  /\ offset + length # cap =>
                       /\ offset' = offset
                       /\ capacity' = cap
                       /\ ret' # FAIL
                       /\ call'.g = (IF capacity = 0 THEN "init" ELSE "none")
                 /\ (offset + length = cap /\ offset >= length) =>
                       /\ offset' = 0
                       /\ capacity' = cap
                       /\ ret' # FAIL
                       /\ call'.g = "compact"
                       /\ \A i \in 0..(length - 1) :
                             (call'.op = "push" \/ i < call'.a) => data'[i] = data[offset + i]
                 /\ (offset + length = cap /\ offset < length) =>
                       /\ offset' = offset
                       /\ capacity' = (IF ret' # FAIL THEN 2 * cap ELSE cap)
                       /\ call'.g = "double"]_vars

\* A push that found the live region at the end of the block with at least
\* as much room before it: the elements are at slot 0 now, the new one
\* behind them.
C19_Witness ==
    /\ call.op = "push"
    /\ call.g = "compact"
    /\ ret = 1
    /\ offset = 0
    /\ length = 2
    /\ capacity = 2
    /\ ~freed

\* After findElement(cmp, key) on a sorted container the result is an element
\* of the container that compares equal to the key if there is one, and NULL
\* if there is none.
FindElementReturnsMatch ==
    (call.op = "findElement" /\ SortedLive(data, offset, length)) =>
        LET hits == {i \in 0..(length - 1) : CompKey(call.a, data[offset + i]) = 0}
        IN  /\ hits = {} => ret = NULL
            /\ hits # {} => \E i \in hits : ret = Get(i)

\* C16: on a sorted container findElement(cmp, key) returns an element that
\* compares equal to the key if there is one and NULL if there is none; and
\* when findIndex(cmp, key) succeeds as well, the element at the index it
\* returns compares equal to the element findElement returned.
C16_FindElementAgreesWithFindIndex ==
    /\ FindElementReturnsMatch
    /\ (call.op = "findElement" /\ SortedLive(data, offset, length)) =>
          \A ind \in FindIndex(call.a) :
              (ret # NULL /\ ind # FAIL) => CompElems(ret, Get(ind)) = 0

\* The slots lo, lo + 1, ... of a range of n slots.
Range(lo, n) == lo..(lo + n - 1)

\* The slots of parr->data the call of this step read or wrote, from the
\* layout it found, its argument, its growth branch and its result.
Touched ==
    LET op == call'.op
        ind == call'.a
        grown == IF call'.g = "compact"
                 THEN Range(offset, length) \cup Range(0, length)
                 ELSE {}
        bytes == (length + SizeofPtr - 1) \div SizeofPtr
    IN  CASE op \in {"set", "get", "remove"} /\ ind >= length -> {}
          [] op = "set" -> {offset + ind}
          [] op = "get" -> {offset + ind}
          [] op = "indexOf" -> Range(offset, IF ret' = FAIL THEN length ELSE ret' + 1)
          [] op = "getFirst" -> Range(offset, IF length = 0 THEN 0 ELSE 1)
          [] op = "getLast" -> IF length = 0 THEN {} ELSE {offset + length - 1}
          [] op = "pop" -> IF length = 0 THEN {} ELSE {offset + length - 1}
          [] op = "dequeue" -> Range(offset, IF length = 0 THEN 0 ELSE 1)
          [] op = "push" -> IF ret' = FAIL THEN grown ELSE grown \cup {offset' + length}
          [] op = "insert" ->
                IF ind >= length THEN {}
                ELSE IF ret' = FAIL THEN grown
                ELSE grown \cup Range(offset' + ind, length - ind + 1)
          [] op = "remove" -> Range(offset + ind, length - ind)
          [] op = "ditch" -> IF ind >= length THEN {} ELSE {offset + ind, offset + length - 1}
          [] op \in {"findIndex", "findElement", "sortStandard"} -> Range(offset, length)
          [] op = "sortInsert" -> IF length < 2 THEN {} ELSE Range(offset, length)
          [] op = "capacity" ->
                IF offset = 0 THEN {} ELSE Range(offset, bytes) \cup Range(0, bytes)
          [] OTHER -> {}

\* The number of slots of the block parr->data pointed to when the call of
\* this step touched them: parrayPush and parrayInsert touch them after their
\* growth step, parrayCapacity before its realloc.
BlockSlots == IF call'.op = "capacity" THEN capacity ELSE capacity'

\* Every slot the call of this step touched has an index in [0, capacity).
TouchedInRange == Touched \subseteq 0..(BlockSlots - 1)

\* After the growth step of a successful push or in-range insert there is a
\* free slot behind the live region.
FreeSlotAfterGrowth ==
    (call'.op \in {"push", "insert"} /\ ret' # FAIL) => offset' + length < capacity'

\* The memcpy of the compaction in push and insert copies between ranges that
\* do not overlap.
CompactionDisjoint ==
    (call'.op \in {"push", "insert"} /\ call'.g = "compact") =>
        Range(offset, length) \cap Range(0, length) = {}

\* The index half of C20: slots in range, a free slot after growth, no
\* overlapping compaction copy.
IndicesInRange ==
    [][TouchedInRange /\ FreeSlotAfterGrowth /\ CompactionDisjoint]_vars

InsertAt(s, i, e) == SubSeq(s, 1, i) \o <<e>> \o SubSeq(s, i + 1, Len(s))

\* The sequence s without its element at index i (counted from 0).
RemoveAt(s, i) == SubSeq(s, 1, i) \o SubSeq(s, i + 2, Len(s))

\* How often e occurs in the sequence s.
Count(e, s) == Cardinality({k \in 1..Len(s) : s[k] = e})

\* C11: a successful insert(i, ref) with i < length returns i, makes the
\* length one more and turns the contents s into s[0..i) ++ [ref] ++
\* s[i..length), whichever growth branch it took.
C11_InsertShiftsTail ==
    [][(call'.op = "insert" /\ call'.a < length /\ ret' # FAIL) =>
          /\ ret' = call'.a
          /\ length' = length + 1
          /\ Contents' = InsertAt(Contents, call'.a, taken')]_vars

\* An insert in the middle that had to double the block: [1,3] became
\* [1,2,3].
C11_Witness ==
    /\ call.op = "insert"
    /\ call.g = "double"
    /\ ret = 1
    /\ fifo = <<1, 3>>
    /\ taken = 2
    /\ Contents = <<1, 2, 3>>

\* C12: remove(i) with i < length returns the element at index i and turns
\* the contents s into s[0..i) ++ s(i..length), with the length one less and
\* the offset and the capacity as they were; a remove(i) right after a
\* successful insert(i, x) returns x and restores the contents the insert
\* found.
C12_RemoveClosesGap ==
    [][(call'.op = "remove" /\ call'.a < length) =>
          /\ ret' = Contents[call'.a + 1]
          /\ length' = length - 1
          /\ Contents' = RemoveAt(Contents, call'.a)
          /\ UNCHANGED <<offset, capacity>>
          /\ (call.op = "insert" /\ ret # FAIL) =>
                /\ ret' = taken
                /\ Contents' = fifo]_vars

\* insert(1, 2) on [1,3] followed by remove(1), which returned 2 and left
\* [1,3] again.
C12_Witness ==
    /\ call.op = "remove"
    /\ call.a = 1
    /\ ret = 2
    /\ taken = 2
    /\ fifo = <<1, 3>>
    /\ Contents = <<1, 3>>

\* C13: ditch(i) with i < length returns the element at index i and makes
\* the length one less; afterwards index i, if it is still an index, holds
\* what was the last element and every other index holds what it held; the
\* remaining elements are the old ones less one occurrence of the returned
\* one.
C13_DitchFillsGapWithLast ==
    [][(call'.op = "ditch" /\ call'.a < length) =>
          /\ ret' = Contents[call'.a + 1]
          /\ length' = length - 1
          /\ \A j \in 0..(length - 2) :
                Contents'[j + 1] = (IF j = call'.a THEN Contents[length] ELSE Contents[j + 1])
          /\ \A e \in LayoutElem :
                Count(e, Contents') = Count(e, Contents) - (IF e = ret' THEN 1 ELSE 0)]_vars

\* ditch(0) on [1,2,3] returned 1 and left [3,2].
C13_Witness ==
    /\ call.op = "ditch"
    /\ call.a = 0
    /\ ret = 1
    /\ offset >= 1
    /\ Contents = <<3, 2>>
    /\ data[offset + 2] = 3

\* The elements of s with keys k, k + 1, ... up to maxk, those with the
\* smallest key first and those with the same key in the order they have in s.
RECURSIVE Gather(_, _, _)
Gather(s, k, maxk) ==
    IF k > maxk
    THEN <<>>
    ELSE SelectSeq(s, LAMBDA e : Key(e) = k) \o Gather(s, k + 1, maxk)

\* The keys the references of the layout specification point to.
LayoutKeys == {Key(e) : e \in LayoutElem}

\* The stable ascending arrangement of a sequence of references.
StableSorted(s) ==
    Gather(s, CHOOSE k \in LayoutKeys : \A j \in LayoutKeys : k <= j,
              CHOOSE k \in LayoutKeys : \A j \in LayoutKeys : j <= k)

\* C17: sortInsert leaves the live region sorted in ascending order of the
\* comparator, holding the elements it held, those that compare equal in the
\* order they had; it changes no slot outside [offset, offset + length) and
\* leaves the offset, the length and the capacity as they were, at every
\* offset.
C17_SortInsertStable ==
    [][call'.op = "sortInsert" =>
          /\ SortedLive(data', offset, length)
          /\ \A e \in LayoutElem : Count(e, Contents') = Count(e, Contents)
          /\ Contents' = StableSorted(Contents)
          /\ \A p \in DOMAIN data : (p < offset \/ p >= offset + length) => data'[p] = data[p]
          /\ DOMAIN data' = DOMAIN data
          /\ UNCHANGED <<offset, length, capacity>>]_vars

\* A sort at offset 1 of [2,3,1], where references 3 and 1 have the same
\* key: it left [3,1,2], and the slot before the live region as it was.
C17_Witness ==
    /\ call.op = "sortInsert"
    /\ offset = 1
    /\ fifo = <<2, 3, 1>>
    /\ Contents = <<3, 1, 2>>
    /\ data[0] = 2
====
